---- MODULE Spec2Model ----
(***************************************************************************)
(* Model of the grading-decision engine of lab_grader_web:                 *)
(*   grading/grader.py       LabGrader.grade and its steps                 *)
(*   grading/ci_checker.py   parse / filter / evaluate of check runs       *)
(*   grading/taskid.py       TASKID extraction and validation              *)
(*   grading/penalty.py      late-submission penalty                       *)
(*   grading/sheets_client.py  cell protection                             *)
(*   grading/github_client.py  forbidden-file detection                    *)
(*                                                                         *)
(* Representation.  An optional value (Python None or a value) is a record *)
(* [some |-> FALSE] or [some |-> TRUE, v |-> value].  A spreadsheet cell   *)
(* or grade token is a sequence of one-character strings, so that strip,   *)
(* startswith and the "v-N" formatting are computed, not assumed.  A file  *)
(* path or pattern is a sequence of path tokens.  A datetime is a record   *)
(* of days, seconds, microseconds and a flag telling whether it carries    *)
(* timezone information.                                                   *)
(***************************************************************************)
EXTENDS Integers, Sequences, FiniteSets, TLC

\* ------------------------------------------------------------------------
\* Optional values
\* ------------------------------------------------------------------------
NoneV == [some |-> FALSE]
Some(x) == [some |-> TRUE, v |-> x]

\* ------------------------------------------------------------------------
\* Bounds of the explored input space
\* ------------------------------------------------------------------------
MaxFiles == 2
MaxRuns == 2
MaxLogLines == 2
MaxModified == 2
MaxLateDays == 8
MaxCap == 3
MaxCellLen == 3
MaxTaskid == 4

\* concurrent grade_lab requests for one student and lab
MaxRequests == 2

\* ------------------------------------------------------------------------
\* Sequence helpers
\* ------------------------------------------------------------------------
SeqsUpTo(S, n) == UNION { [1..k -> S] : k \in 0..n }

IsPrefix(p, s) == Len(p) <= Len(s) /\ SubSeq(s, 1, Len(p)) = p

InSeq(x, s) == \E i \in 1..Len(s) : s[i] = x

\* the sub-sequence of s whose elements satisfy Test, in order (a Python
\* list comprehension with a filter)
RECURSIVE SelectIdx(_, _, _)
SelectIdx(s, keep, i) ==
    IF i > Len(s) THEN <<>>
    ELSE (IF i \in keep THEN <<s[i]>> ELSE <<>>) \o SelectIdx(s, keep, i + 1)

\* ------------------------------------------------------------------------
\* Grade tokens and cell values (sequences of characters)
\* ------------------------------------------------------------------------
DigitChar(d) == <<"0", "1", "2", "3", "4", "5", "6", "7", "8", "9">>[d + 1]

\* str(n) for an integer n
RECURSIVE NatStr(_)
NatStr(n) == IF n < 10 THEN <<DigitChar(n)>>
             ELSE NatStr(n \div 10) \o <<DigitChar(n % 10)>>

IntStr(n) == IF n < 0 THEN <<"-">> \o NatStr(0 - n) ELSE NatStr(n)

TokV == <<"v">>
TokX == <<"x">>
WrongTaskidToken ==
    <<"?", "!", " ", "W", "r", "o", "n", "g", " ", "T", "A", "S", "K", "I", "D", "!">>

\* ------------------------------------------------------------------------
\* grading/sheets_client.py : cell protection
\* ------------------------------------------------------------------------
OVERWRITABLE_VALUES == { <<>>, <<"x">>, <<"?">> }
OVERWRITABLE_PREFIXES == << <<"?">> >>

Whitespace == {" ", "\t", "\n"}

RECURSIVE LStrip(_)
LStrip(s) == IF s # <<>> /\ Head(s) \in Whitespace THEN LStrip(Tail(s)) ELSE s

RECURSIVE RStrip(_)
RStrip(s) == IF s # <<>> /\ s[Len(s)] \in Whitespace
             THEN RStrip(SubSeq(s, 1, Len(s) - 1)) ELSE s

\* str.strip()
Strip(s) == RStrip(LStrip(s))

\* can_overwrite_cell comparing the value as it stands, without strip()
can_overwrite_cell_Mutant(current_value) ==
    IF current_value = <<>> THEN TRUE
    ELSE IF current_value \in OVERWRITABLE_VALUES THEN TRUE
    ELSE \E i \in 1..Len(OVERWRITABLE_PREFIXES) :
             IsPrefix(OVERWRITABLE_PREFIXES[i], current_value)

can_overwrite_cell(current_value) ==
    IF current_value = <<>> THEN TRUE
    ELSE LET value_stripped == Strip(current_value) IN
         IF value_stripped \in OVERWRITABLE_VALUES THEN TRUE
         ELSE \E i \in 1..Len(OVERWRITABLE_PREFIXES) :
                  IsPrefix(OVERWRITABLE_PREFIXES[i], value_stripped)

\* ------------------------------------------------------------------------
\* grading/penalty.py
\* ------------------------------------------------------------------------
\* a datetime: whole days, seconds within the day, microseconds within the
\* second, and whether it carries timezone information (aware datetimes are
\* kept as their UTC instant)
DateTime(d, s, u, aw) == [days |-> d, seconds |-> s, microseconds |-> u, aware |-> aw]

\* comparing or subtracting an aware and a naive datetime raises TypeError
Comparable(a, b) == a.aware = b.aware

TimeLE(a, b) ==
    \/ a.days < b.days
    \/ a.days = b.days /\ a.seconds < b.seconds
    \/ a.days = b.days /\ a.seconds = b.seconds /\ a.microseconds <= b.microseconds

TimeGT(a, b) == ~TimeLE(a, b)

\* a - b as a normalised timedelta (0 <= seconds < 86400,
\* 0 <= microseconds < 1000000)
TimeDelta(a, b) ==
    LET u0 == a.microseconds - b.microseconds
        bu == IF u0 < 0 THEN 1 ELSE 0
        s0 == a.seconds - b.seconds - bu
        bs == IF s0 < 0 THEN 1 ELSE 0
    IN [days |-> a.days - b.days - bs,
        seconds |-> s0 + bs * 86400,
        microseconds |-> u0 + bu * 1000000]

Min(a, b) == IF a <= b THEN a ELSE b

PenaltyStrategyValues == {"weekly", "immediate", "none", "daily"}

\* PenaltyStrategy(name): the enum member, or ValueError for an unknown name
PenaltyStrategy(name) ==
    IF name \in PenaltyStrategyValues THEN Some(name) ELSE NoneV

\* calculate_penalty_value whose daily and weekly counts are not capped
calculate_penalty_value_Mutant(completed_at, deadline, penalty_max, strategy) ==
    IF TimeLE(completed_at, deadline) THEN 0
    ELSE IF strategy = "none" THEN 0
    ELSE IF strategy = "immediate" THEN penalty_max
    ELSE LET delta == TimeDelta(completed_at, deadline) IN
         IF strategy = "daily"
         THEN delta.days + (IF delta.seconds > 0 THEN 1 ELSE 0)
         ELSE (delta.days \div 7)
              + (IF delta.days % 7 > 0 \/ delta.seconds > 0 THEN 1 ELSE 0)

\* the value returned, for datetimes that can be compared
calculate_penalty_value(completed_at, deadline, penalty_max, strategy) ==
    IF TimeLE(completed_at, deadline) THEN 0
    ELSE IF strategy = "none" THEN 0
    ELSE IF strategy = "immediate" THEN penalty_max
    ELSE LET delta == TimeDelta(completed_at, deadline) IN
         IF strategy = "daily"
         THEN LET days == delta.days + (IF delta.seconds > 0 THEN 1 ELSE 0)
              IN Min(days, penalty_max)
         ELSE LET weeks == (delta.days \div 7)
                           + (IF delta.days % 7 > 0 \/ delta.seconds > 0 THEN 1 ELSE 0)
              IN Min(weeks, penalty_max)

\* calculate_penalty: [ok |-> TRUE, v |-> points], or the exception raised by
\* the first comparison
calculate_penalty(completed_at, deadline, penalty_max, strategy) ==
    IF ~Comparable(completed_at, deadline)
    THEN [ok |-> FALSE, exc |-> "TypeError"]
    ELSE [ok |-> TRUE,
          v |-> calculate_penalty_value(completed_at, deadline, penalty_max, strategy)]

format_grade_with_penalty(base_grade, penalty) ==
    IF penalty <= 0 THEN base_grade
    ELSE base_grade \o <<"-">> \o IntStr(penalty)

\* ------------------------------------------------------------------------
\* grading/taskid.py
\* ------------------------------------------------------------------------
\* A log text is a sequence of lines.  A line is a record
\*   [ts     : the line starts with the CI timestamp prefix,
\*    lead   : other text stands between the line start (or the timestamp)
\*             and the marker,
\*    marker : "none", or the spelling of the marker words found on the line
\*             ("TASKID is", "taskid is", "Taskid  Is", ...),
\*    val    : the number following the marker]
\* The empty sequence is the empty string.
MarkerSpellings == {"TASKID is", "taskid is"}

\* re.findall(r'TASKID\s+is\s+(\d+)', logs, re.IGNORECASE): the captured
\* numbers of every occurrence, wherever it stands on its line
RECURSIVE FindAllTaskid(_)
FindAllTaskid(logs) ==
    IF logs = <<>> THEN <<>>
    ELSE (IF Head(logs).marker \in MarkerSpellings THEN <<Head(logs).val>> ELSE <<>>)
         \o FindAllTaskid(Tail(logs))

SeqRange(s) == { s[i] : i \in 1..Len(s) }

extract_taskid_from_logs(logs) ==
    IF logs = <<>>
    THEN [found |-> NoneV, error |-> Some([id |-> "empty"])]
    ELSE LET matches == FindAllTaskid(logs)
             unique_ids == SeqRange(matches)
         IN IF Len(matches) = 0
            THEN [found |-> NoneV, error |-> Some([id |-> "not_found"])]
            ELSE IF Cardinality(unique_ids) > 1
            THEN [found |-> NoneV,
                  error |-> Some([id |-> "multiple", ids |-> unique_ids])]
            ELSE [found |-> Some(matches[1]), error |-> NoneV]

\* '"несколько" in result.error': only the multiple-values message has the word
ErrorSaysSeveral(err) == err.id = "multiple"

\* calculate_expected_taskid returning the remainder as it is
calculate_expected_taskid_Mutant(student_order, taskid_shift, taskid_max) ==
    IF taskid_max <= 0 THEN [ok |-> FALSE, exc |-> "ValueError"]
    ELSE [ok |-> TRUE, v |-> (student_order + taskid_shift) % taskid_max]

\* expected variant; taskid_max <= 0 raises ValueError
calculate_expected_taskid(student_order, taskid_shift, taskid_max) ==
    IF taskid_max <= 0 THEN [ok |-> FALSE, exc |-> "ValueError"]
    ELSE LET result == (student_order + taskid_shift) % taskid_max
         IN [ok |-> TRUE, v |-> IF result # 0 THEN result ELSE taskid_max]

validate_taskid(found_taskid, expected_taskid) ==
    IF found_taskid = expected_taskid
    THEN [valid |-> TRUE, msg |-> NoneV]
    ELSE [valid |-> FALSE,
          msg |-> Some([id |-> "wrong_variant", found |-> found_taskid,
                        expected |-> expected_taskid])]

\* ------------------------------------------------------------------------
\* grading/github_client.py : forbidden-file detection
\* ------------------------------------------------------------------------
\* filename == pattern or filename.startswith(pattern), for some pattern
MatchesForbidden(filename, forbidden_patterns) ==
    \E j \in 1..Len(forbidden_patterns) :
        filename = forbidden_patterns[j] \/ IsPrefix(forbidden_patterns[j], filename)

\* the inner loop without its break: one entry per matching pattern
RECURSIVE AppendPerPattern(_, _)
AppendPerPattern(filename, patterns) ==
    IF patterns = <<>> THEN <<>>
    ELSE (IF filename = Head(patterns) \/ IsPrefix(Head(patterns), filename)
          THEN <<filename>> ELSE <<>>)
         \o AppendPerPattern(filename, Tail(patterns))

RECURSIVE check_forbidden_files_in_list_Mutant(_, _)
check_forbidden_files_in_list_Mutant(all_files, forbidden_patterns) ==
    IF all_files = <<>> THEN <<>>
    ELSE AppendPerPattern(Head(all_files), forbidden_patterns)
         \o check_forbidden_files_in_list_Mutant(Tail(all_files), forbidden_patterns)

check_forbidden_files_in_list(all_files, forbidden_patterns) ==
    SelectIdx(all_files,
              { i \in 1..Len(all_files) : MatchesForbidden(all_files[i], forbidden_patterns) },
              1)

\* commit_files: records [filename, status]
RECURSIVE Filenames(_)
Filenames(fs) == IF fs = <<>> THEN <<>> ELSE <<Head(fs).filename>> \o Filenames(Tail(fs))

check_forbidden_modifications(commit_files, forbidden_patterns) ==
    Filenames(SelectIdx(commit_files,
              { i \in 1..Len(commit_files) :
                    /\ commit_files[i].status \in {"removed", "modified"}
                    /\ MatchesForbidden(commit_files[i].filename, forbidden_patterns) },
              1))

get_default_forbidden_patterns(required_files) ==
    IF InSeq(<<"test_main.py">>, required_files)
    THEN << <<"test_main.py">>, <<"tests/">> >>
    ELSE <<>>

\* ------------------------------------------------------------------------
\* grading/ci_checker.py
\* ------------------------------------------------------------------------
DEFAULT_JOB_NAMES == <<"run-autograding-tests", "test", "build", "Autograding", "autograding">>

\* An html_url is kept by what check_taskid reads of it:
\*   sep   : the separator in front of the last path segment ("/job/",
\*           "/jobs/", or "" for a URL without either),
\*   tail  : the text after the last "/job/" up to a "?", as [numeric, n]
Url(sep, numeric, n) == [sep |-> sep, tail |-> [numeric |-> numeric, n |-> n]]
EmptyUrl == Url("", FALSE, 0)

CheckRun(name, conclusion, html_url, completed_at) ==
    [name |-> name, conclusion |-> conclusion, html_url |-> html_url,
     completed_at |-> completed_at]

\* datetime.fromisoformat(completed_str.replace("Z", "+00:00")) of a raw
\* timestamp [ok, t]: the datetime, or None when the text does not parse
ParseCompletedAt(completed_str) ==
    IF ~completed_str.some THEN NoneV
    ELSE IF completed_str.v.ok THEN Some(completed_str.v.t) ELSE NoneV

\* a raw record: every key optional
RECURSIVE parse_check_runs(_)
parse_check_runs(check_runs_data) ==
    IF check_runs_data = <<>> THEN <<>>
    ELSE LET run == Head(check_runs_data) IN
         << CheckRun(IF run.name.some THEN run.name.v ELSE "Unnamed check",
                     run.conclusion,
                     IF run.html_url.some THEN run.html_url.v ELSE EmptyUrl,
                     ParseCompletedAt(run.completed_at)) >>
         \o parse_check_runs(Tail(check_runs_data))

\* filter_relevant_jobs without the fallback to all runs
filter_relevant_jobs_NoFallbackMutant(check_runs, configured_jobs) ==
    IF configured_jobs.some
    THEN SelectIdx(check_runs,
                   { i \in 1..Len(check_runs) : InSeq(check_runs[i].name, configured_jobs.v) },
                   1)
    ELSE SelectIdx(check_runs,
                   { i \in 1..Len(check_runs) :
                         InSeq(check_runs[i].name, DEFAULT_JOB_NAMES) },
                   1)

\* a list filtered in place while it is iterated: after a removal the
\* element that moved into the freed position is skipped
RECURSIVE RemoveWhileIterating(_, _, _)
RemoveWhileIterating(s, names, i) ==
    IF i > Len(s) THEN s
    ELSE IF InSeq(s[i].name, names) THEN RemoveWhileIterating(s, names, i + 1)
    ELSE RemoveWhileIterating(SubSeq(s, 1, i - 1) \o SubSeq(s, i + 1, Len(s)),
                              names, i + 1)

\* filter_relevant_jobs removing the other runs from the list it iterates
filter_relevant_jobs_InPlaceMutant(check_runs, configured_jobs) ==
    IF configured_jobs.some
    THEN RemoveWhileIterating(check_runs, configured_jobs.v, 1)
    ELSE LET default_matches == RemoveWhileIterating(check_runs, DEFAULT_JOB_NAMES, 1)
         IN IF default_matches # <<>> THEN default_matches ELSE check_runs

filter_relevant_jobs(check_runs, configured_jobs) ==
    IF configured_jobs.some
    THEN SelectIdx(check_runs,
                   { i \in 1..Len(check_runs) : InSeq(check_runs[i].name, configured_jobs.v) },
                   1)
    ELSE LET default_matches ==
                 SelectIdx(check_runs,
                           { i \in 1..Len(check_runs) :
                                 InSeq(check_runs[i].name, DEFAULT_JOB_NAMES) },
                           1)
         IN IF default_matches # <<>> THEN default_matches ELSE check_runs

\* EvaluateStep counting every concluded run as passed
EvaluateStep_Mutant(acc, run) ==
    LET success == run.conclusion.some
        emoji == IF success THEN "ok" ELSE "wait"
        newer == /\ success
                 /\ run.completed_at.some
                 /\ \/ ~acc.latest_success.some
                    \/ TimeGT(run.completed_at.v, acc.latest_success.v)
    IN [summary |-> Append(acc.summary,
                           [emoji |-> emoji, name |-> run.name, url |-> run.html_url]),
        passed_count |-> acc.passed_count + (IF success THEN 1 ELSE 0),
        latest_success |-> IF newer THEN run.completed_at ELSE acc.latest_success,
        has_pending |-> acc.has_pending \/ ~success]

\* one iteration of the loop of evaluate_ci_results
EvaluateStep(acc, run) ==
    LET success == run.conclusion = Some("success")
        emoji == IF success THEN "ok"
                 ELSE IF run.conclusion = Some("failure") THEN "fail" ELSE "wait"
        newer == /\ success
                 /\ run.completed_at.some
                 /\ \/ ~acc.latest_success.some
                    \/ TimeGT(run.completed_at.v, acc.latest_success.v)
    IN [summary |-> Append(acc.summary,
                           [emoji |-> emoji, name |-> run.name, url |-> run.html_url]),
        passed_count |-> acc.passed_count + (IF success THEN 1 ELSE 0),
        latest_success |-> IF newer THEN run.completed_at ELSE acc.latest_success,
        has_pending |-> acc.has_pending \/ (~success /\ run.conclusion # Some("failure"))]

RECURSIVE EvaluateLoop(_, _)
EvaluateLoop(acc, runs) ==
    IF runs = <<>> THEN acc ELSE EvaluateLoop(EvaluateStep(acc, Head(runs)), Tail(runs))

CIResult(passed, passed_count, total_count, summary, latest_success_time, has_pending) ==
    [passed |-> passed, passed_count |-> passed_count, total_count |-> total_count,
     summary |-> summary, latest_success_time |-> latest_success_time,
     has_pending |-> has_pending]

\* evaluate_ci_results that never reports a pending run
evaluate_ci_results_Mutant(check_runs) ==
    IF check_runs = <<>>
    THEN CIResult(FALSE, 0, 0, <<>>, NoneV, TRUE)
    ELSE LET acc == EvaluateLoop([summary |-> <<>>, passed_count |-> 0,
                                  latest_success |-> NoneV, has_pending |-> FALSE],
                                 check_runs)
         IN CIResult(acc.passed_count = Len(check_runs), acc.passed_count,
                     Len(check_runs), acc.summary, acc.latest_success, FALSE)

\* evaluate_ci_results taking an empty list for a list that passed
evaluate_ci_results_EmptyMutant(check_runs) ==
    LET acc == EvaluateLoop([summary |-> <<>>, passed_count |-> 0,
                             latest_success |-> NoneV, has_pending |-> FALSE],
                            check_runs)
    IN CIResult(acc.passed_count = Len(check_runs) /\ ~acc.has_pending,
                acc.passed_count, Len(check_runs), acc.summary,
                acc.latest_success, acc.has_pending)

evaluate_ci_results(check_runs) ==
    IF check_runs = <<>>
    THEN CIResult(FALSE, 0, 0, <<>>, NoneV, TRUE)
    ELSE LET acc == EvaluateLoop([summary |-> <<>>, passed_count |-> 0,
                                  latest_success |-> NoneV, has_pending |-> FALSE],
                                 check_runs)
         IN CIResult(acc.passed_count = Len(check_runs) /\ ~acc.has_pending,
                     acc.passed_count, Len(check_runs), acc.summary,
                     acc.latest_success, acc.has_pending)

\* lab_config["ci"]: [kind |-> "absent"], [kind |-> "list"] (old format) or
\* [kind |-> "dict", jobs |-> seq, workflows |-> seq] (a missing key is <<>>)
get_ci_config_jobs(lab_config) ==
    LET ci_config == lab_config.ci IN
    IF ci_config.kind = "absent" THEN NoneV
    ELSE IF ci_config.kind = "dict"
    THEN LET jobs == IF ci_config.jobs # <<>> THEN ci_config.jobs ELSE ci_config.workflows
         IN IF jobs # <<>> THEN Some(jobs) ELSE NoneV
    ELSE NoneV

\* "{passed_count}/{total_count} тестов пройдено" (the phrase is kept in
\* Latin transliteration)
format_ci_result_string(passed_count, total_count) ==
    IntStr(passed_count) \o <<"/">> \o IntStr(total_count) \o <<" testov projdeno">>

\* ------------------------------------------------------------------------
\* grading/grader.py : result types
\* ------------------------------------------------------------------------
GradeStatus == {"updated", "rejected", "pending", "error"}

GradeResult(status, result, message, passed, checks, current_grade, error_code) ==
    [kind |-> "GradeResult", status |-> status, result |-> result,
     message |-> message, passed |-> passed, checks |-> checks,
     current_grade |-> current_grade, error_code |-> error_code]

CIEvaluation(grade_result, ci_passed, successful_runs, latest_success_time) ==
    [grade_result |-> grade_result, ci_passed |-> ci_passed,
     successful_runs |-> successful_runs, latest_success_time |-> latest_success_time]

ForbiddenFilesWarning(violations, message) ==
    [kind |-> "ForbiddenFilesWarning", violations |-> violations, message |-> message]

\* an exception that leaves grade()
Raised(exc) == [kind |-> "exception", exc |-> exc]

\* grade() has not returned yet
NoReturn == [kind |-> "none"]

\* ------------------------------------------------------------------------
\* grading/grader.py : check_repository, one piece per collaborator call
\* ------------------------------------------------------------------------
\* GitHubClient.check_required_files over a repository holding `existing`
check_required_files(existing, required_files) ==
    SelectIdx(required_files,
              { i \in 1..Len(required_files) : required_files[i] \notin existing },
              1)

\* RepoFilesError naming the last missing file
RepoFilesError_Mutant(missing) ==
    IF missing # <<>>
    THEN Some(GradeResult("error", NoneV,
                          [id |-> "file_not_found", file |-> missing[Len(missing)]],
                          NoneV, <<>>, NoneV, Some("MISSING_FILES")))
    ELSE NoneV

RepoFilesError(missing) ==
    IF missing # <<>>
    THEN Some(GradeResult("error", NoneV, [id |-> "file_not_found", file |-> missing[1]],
                          NoneV, <<>>, NoneV, Some("MISSING_FILES")))
    ELSE NoneV

RepoWorkflowsError(has_workflows) ==
    IF ~has_workflows
    THEN Some(GradeResult("error", NoneV, [id |-> "no_workflows"],
                          NoneV, <<>>, NoneV, Some("NO_WORKFLOWS")))
    ELSE NoneV

RepoCommitError(commit) ==
    IF ~commit.some
    THEN Some(GradeResult("error", NoneV, [id |-> "no_commits"],
                          NoneV, <<>>, NoneV, Some("NO_COMMITS")))
    ELSE NoneV

\* ------------------------------------------------------------------------
\* grading/grader.py : check_forbidden_files (after get_all_modified_files)
\* ------------------------------------------------------------------------
ForbiddenMessage(violations) ==
    IF Len(violations) = 1
    THEN [id |-> "forbidden_file", files |-> violations, more |-> 0]
    ELSE [id |-> "forbidden_files",
          files |-> SubSeq(violations, 1, Min(3, Len(violations))),
          more |-> IF Len(violations) > 3 THEN Len(violations) - 3 ELSE 0]

check_forbidden_files(all_modified, forbidden) ==
    IF all_modified = <<>> THEN NoneV
    ELSE LET violations == check_forbidden_files_in_list(all_modified, forbidden)
         IN IF violations # <<>>
            THEN Some(ForbiddenFilesWarning(violations, ForbiddenMessage(violations)))
            ELSE NoneV

\* ------------------------------------------------------------------------
\* grading/grader.py : _evaluate_ci_internal
\* ------------------------------------------------------------------------
CINoCommit ==
    CIEvaluation(GradeResult("error", NoneV, [id |-> "no_commits"],
                             NoneV, <<>>, NoneV, NoneV),
                 FALSE, <<>>, NoneV)

\* everything after the get_check_runs call
evaluate_ci_internal(check_runs_data, lab_config) ==
    IF ~check_runs_data.some
    THEN CIEvaluation(GradeResult("error", NoneV, [id |-> "ci_not_found"],
                                  NoneV, <<>>, NoneV, NoneV),
                      FALSE, <<>>, NoneV)
    ELSE IF check_runs_data.v = <<>>
    THEN CIEvaluation(GradeResult("pending", NoneV, [id |-> "no_active_ci"],
                                  NoneV, <<>>, NoneV, NoneV),
                      FALSE, <<>>, NoneV)
    ELSE
    LET check_runs == parse_check_runs(check_runs_data.v)
        ci_jobs == get_ci_config_jobs(lab_config)
        relevant_runs == filter_relevant_jobs(check_runs, ci_jobs)
    IN IF relevant_runs = <<>>
       THEN CIEvaluation(GradeResult("pending", NoneV, [id |-> "no_active_ci"],
                                     NoneV, <<>>, NoneV, NoneV),
                         FALSE, <<>>, NoneV)
       ELSE
       LET ci_result == evaluate_ci_results(relevant_runs) IN
       IF ci_result.has_pending
       THEN CIEvaluation(
                GradeResult("pending", NoneV, [id |-> "ci_running"],
                            Some(format_ci_result_string(ci_result.passed_count,
                                                         ci_result.total_count)),
                            ci_result.summary, NoneV, NoneV),
                FALSE, <<>>, NoneV)
       ELSE
       LET successful_runs ==
               SelectIdx(relevant_runs,
                         { i \in 1..Len(relevant_runs) :
                               relevant_runs[i].conclusion = Some("success") },
                         1)
           final_result == IF ci_result.passed THEN TokV ELSE TokX
           result_string == format_ci_result_string(ci_result.passed_count,
                                                    ci_result.total_count)
           message == IF ci_result.passed THEN [id |-> "ci_passed"] ELSE [id |-> "ci_failed"]
       IN CIEvaluation(
              GradeResult("updated", Some(final_result), message, Some(result_string),
                          ci_result.summary, NoneV, NoneV),
              ci_result.passed, successful_runs, ci_result.latest_success_time)

\* ------------------------------------------------------------------------
\* grading/grader.py : check_taskid
\* ------------------------------------------------------------------------
\* the run's URL holds "/job/" and int() accepts what follows it
HasJobId(run) == run.html_url.sep = "/job/" /\ run.html_url.tail.numeric

JobId(run) == run.html_url.tail.n

\* the loop skips, without any call, the runs whose URL gives no job id:
\* index of the first run at or after i whose logs are fetched
RECURSIVE NextFetch(_, _)
NextFetch(successful_runs, i) ==
    IF i > Len(successful_runs) THEN i
    ELSE IF HasJobId(successful_runs[i]) THEN i
    ELSE NextFetch(successful_runs, i + 1)

\* ScanLogs skipping a run with several different values instead of stopping
ScanLogs_Mutant(logs) ==
    IF logs.some /\ logs.v # <<>>
    THEN LET result == extract_taskid_from_logs(logs.v) IN
         IF result.found.some
         THEN [taskid_found |-> result.found, taskid_error |-> NoneV, break |-> TRUE]
         ELSE [taskid_found |-> NoneV, taskid_error |-> NoneV, break |-> FALSE]
    ELSE [taskid_found |-> NoneV, taskid_error |-> NoneV, break |-> FALSE]

\* the body of the loop after get_job_logs returned `logs` (None or a text):
\* the new (taskid_found, taskid_error) and whether the loop breaks
ScanLogs(logs) ==
    IF logs.some /\ logs.v # <<>>
    THEN LET result == extract_taskid_from_logs(logs.v) IN
         IF result.found.some
         THEN [taskid_found |-> result.found, taskid_error |-> NoneV, break |-> TRUE]
         ELSE IF result.error.some /\ ErrorSaysSeveral(result.error.v)
         THEN [taskid_found |-> NoneV, taskid_error |-> result.error, break |-> TRUE]
         ELSE [taskid_found |-> NoneV, taskid_error |-> NoneV, break |-> FALSE]
    ELSE [taskid_found |-> NoneV, taskid_error |-> NoneV, break |-> FALSE]

\* the code after the loop: an error GradeResult, or None when validated
TaskidVerdict(taskid_found, taskid_error, expected_taskid) ==
    IF taskid_error.some
    THEN Some(GradeResult("error", NoneV,
                          [id |-> "taskid_error", error |-> taskid_error.v],
                          NoneV, <<>>, NoneV, Some("MULTIPLE_TASKIDS")))
    ELSE IF ~taskid_found.some
    THEN Some(GradeResult("error", Some(WrongTaskidToken), [id |-> "taskid_not_found"],
                          NoneV, <<>>, NoneV, Some("TASKID_NOT_FOUND")))
    ELSE LET v == validate_taskid(taskid_found.v, expected_taskid) IN
         IF ~v.valid
         THEN Some(GradeResult("error", Some(WrongTaskidToken),
                               [id |-> "wrong_taskid", error |-> v.msg.v],
                               NoneV, <<>>, NoneV, Some("WRONG_TASKID")))
         ELSE NoneV

\* ------------------------------------------------------------------------
\* grading/grader.py : grade, steps 5 and 6
\* ------------------------------------------------------------------------
\* grade() that records the previous cell value in every final result
GradeFinalize_Mutant(lab_config, current_cell_value, deadline, ci_evaluation) ==
    LET parsed == PenaltyStrategy(lab_config.penalty_strategy)
        strategy == IF parsed.some THEN parsed.v ELSE "weekly"
        pr == IF deadline.some /\ ci_evaluation.latest_success_time.some
              THEN calculate_penalty(ci_evaluation.latest_success_time.v, deadline.v,
                                     lab_config.penalty_max, strategy)
              ELSE [ok |-> TRUE, v |-> 0]
    IN IF ~pr.ok THEN Raised(pr.exc)
       ELSE IF current_cell_value.some /\ ~can_overwrite_cell(current_cell_value.v)
       THEN GradeResult("rejected", current_cell_value, [id |-> "already_graded"],
                        ci_evaluation.grade_result.passed,
                        ci_evaluation.grade_result.checks,
                        current_cell_value, NoneV)
       ELSE GradeResult("updated",
                        Some(IF pr.v > 0 THEN format_grade_with_penalty(TokV, pr.v)
                             ELSE TokV),
                        IF pr.v > 0 THEN [id |-> "ci_passed_penalty", penalty |-> pr.v]
                        ELSE ci_evaluation.grade_result.message,
                        ci_evaluation.grade_result.passed,
                        ci_evaluation.grade_result.checks,
                        current_cell_value, NoneV)

GradeFinalize(lab_config, current_cell_value, deadline, ci_evaluation) ==
    LET penalty_max == lab_config.penalty_max
        parsed == PenaltyStrategy(lab_config.penalty_strategy)
        strategy == IF parsed.some THEN parsed.v ELSE "weekly"
        pr == IF deadline.some /\ ci_evaluation.latest_success_time.some
              THEN calculate_penalty(ci_evaluation.latest_success_time.v, deadline.v,
                                     penalty_max, strategy)
              ELSE [ok |-> TRUE, v |-> 0]
    IN IF ~pr.ok THEN Raised(pr.exc)
       ELSE
       LET penalty == pr.v
           final_result == IF penalty > 0 THEN format_grade_with_penalty(TokV, penalty)
                           ELSE TokV
           message == IF penalty > 0
                      THEN [id |-> "ci_passed_penalty", penalty |-> penalty]
                      ELSE ci_evaluation.grade_result.message
       IN IF current_cell_value.some /\ ~can_overwrite_cell(current_cell_value.v)
          THEN GradeResult("rejected", current_cell_value, [id |-> "already_graded"],
                           ci_evaluation.grade_result.passed,
                           ci_evaluation.grade_result.checks,
                           current_cell_value, NoneV)
          ELSE GradeResult("updated", Some(final_result), message,
                           ci_evaluation.grade_result.passed,
                           ci_evaluation.grade_result.checks, NoneV, NoneV)

\* GradeAfterCI running the TASKID check although ignore-task-id is set
GradeAfterCI_IgnoreFlagMutant(ci_evaluation, lab_config, expected_taskid) ==
    IF ci_evaluation.grade_result.status # "updated" THEN "return"
    ELSE IF ~ci_evaluation.ci_passed THEN "return"
    ELSE IF expected_taskid.some THEN "check_taskid"
    ELSE "finalize"

\* GradeAfterCI without the early return on a failed verdict
GradeAfterCI_Mutant(ci_evaluation, lab_config, expected_taskid) ==
    IF ci_evaluation.grade_result.status # "updated" THEN "return"
    ELSE IF expected_taskid.some /\ ~lab_config.ignore_task_id THEN "check_taskid"
    ELSE "finalize"

\* what grade() does with the CI evaluation: return it, run the TASKID
\* check, or go on to the penalty and protection steps
GradeAfterCI(ci_evaluation, lab_config, expected_taskid) ==
    IF ci_evaluation.grade_result.status # "updated" THEN "return"
    ELSE IF ~ci_evaluation.ci_passed THEN "return"
    ELSE IF expected_taskid.some /\ ~lab_config.ignore_task_id THEN "check_taskid"
    ELSE "finalize"

\* what grade() does with the value of check_forbidden_files
GradeAfterForbidden(forbidden_error) ==
    IF forbidden_error.some THEN "return" ELSE "continue"

\* ------------------------------------------------------------------------
\* Explored inputs
\* ------------------------------------------------------------------------
AllFiles == << <<"test_main.py">>, <<"main.cpp">>, <<"lib.cpp">> >>

\* no required file, or the first MaxFiles of them
RequiredFileLists == { <<>>, SubSeq(AllFiles, 1, Min(MaxFiles, Len(AllFiles))) }

ForbiddenConfigs == { <<>>, << <<"test_main.py">>, <<"tests/">> >> }

ModifiedPaths == { <<"main.cpp">>, <<"test_main.py">>, <<"tests/", "helper.py">> }

\* get_all_modified_files returns list(set(...)): no path twice, any order
ModifiedLists ==
    { l \in SeqsUpTo(ModifiedPaths, MaxModified) :
          \A i, j \in 1..Len(l) : i # j => l[i] # l[j] }

CiConfigs ==
    { [kind |-> "absent"],
      [kind |-> "dict", jobs |-> <<>>, workflows |-> <<"test", "lint">>] }

PenaltyMaxValues == {3}
StrategyNames == {"daily", "monthly"}

LabConfigs ==
    [files : RequiredFileLists, forbidden_files : ForbiddenConfigs, ci : CiConfigs,
     ignore_task_id : BOOLEAN, penalty_max : PenaltyMaxValues,
     penalty_strategy : StrategyNames]

CellValues == { <<"v">>, <<"x">> }

DeadlineValues == { DateTime(10, 0, 0, TRUE), DateTime(10, 0, 0, FALSE) }

ExpectedValues == {5}

Opt(S) == {NoneV} \cup { Some(x) : x \in S }

RawTime(t) == Some([ok |-> TRUE, t |-> t])

RawRun(name, conclusion, html_url, completed_at) ==
    [name |-> Some(name), conclusion |-> conclusion, html_url |-> Some(html_url),
     completed_at |-> completed_at]

\* check-run records as the GitHub API returns them ("...Z" timestamps)
RawRuns ==
    { RawRun("test", Some("success"), Url("/job/", TRUE, 1), RawTime(DateTime(9, 36000, 0, TRUE))),
      RawRun("lint", Some("success"), Url("/job/", TRUE, 2), RawTime(DateTime(20, 36001, 0, TRUE))),
      RawRun("lint", Some("failure"), Url("/job/", TRUE, 4), RawTime(DateTime(20, 36001, 0, TRUE))),
      RawRun("test", NoneV, Url("/job/", TRUE, 5), NoneV),
      RawRun("lint", Some("cancelled"), Url("/job/", FALSE, 0), Some([ok |-> FALSE])),
      RawRun("deploy", Some("success"), Url("/jobs/", TRUE, 7), RawTime(DateTime(9, 36000, 0, TRUE))) }

CheckRunsReturns == {NoneV} \cup { Some(l) : l \in SeqsUpTo(RawRuns, MaxRuns) }

LogLine(ts, lead, marker, val) == [ts |-> ts, lead |-> lead, marker |-> marker, val |-> val]

LogLines ==
    { LogLine(TRUE, FALSE, "none", 0),
      LogLine(TRUE, FALSE, "TASKID is", 5),
      LogLine(TRUE, FALSE, "taskid is", 10) }

\* None (request failed), the empty text, or a text of lines
JobLogsReturns == {NoneV} \cup { Some(l) : l \in SeqsUpTo(LogLines, MaxLogLines) }

\* ------------------------------------------------------------------------
\* State
\* ------------------------------------------------------------------------
VARIABLES
    lab_config,          \* argument of grade()
    current_cell_value,  \* argument of grade(): None or a cell text
    deadline,            \* argument of grade(): None or a datetime
    expected_taskid,     \* argument of grade(): None or a number
    repo,                \* what the repository holds
    pc,                  \* the collaborator call grade() is about to issue, or "done"
    calls,               \* the collaborator calls issued so far, in order
    all_modified,        \* value returned by get_all_modified_files
    check_runs_data,     \* value returned by get_check_runs
    ci_evaluation,       \* value of _evaluate_ci_internal
    scan,                \* position and findings of the TASKID scan
    fetched,             \* the get_job_logs calls: run index, job id, logs returned
    ret,                 \* the value grade() returned
    fn_call,             \* a direct call of one of the pure functions: name and arguments
    fn_result,           \* the value that call returned
    sheet_cell,          \* the student's grade cell in the spreadsheet
    requests             \* the grade_lab requests in flight: position and locals of each

vars == <<lab_config, current_cell_value, deadline, expected_taskid, repo, pc, calls,
          all_modified, check_runs_data, ci_evaluation, scan, fetched, ret,
          fn_call, fn_result, sheet_cell, requests>>

args == <<lab_config, current_cell_value, deadline, expected_taskid, repo>>

\* the direct call of a pure function and its result
unit == <<fn_call, fn_result>>

\* no pure function is called directly while grade() runs
NoCall == [fn |-> "none"]

NoResult == [done |-> FALSE]

\* the spreadsheet and the requests of the grade_lab endpoint
endpoint == <<sheet_cell, requests>>

\* no grade_lab request is in flight
EndpointIdle == sheet_cell = <<>> /\ requests = <<>>

NoCIEvaluation == CIEvaluation(NoReturn, FALSE, <<>>, NoneV)

NoScan == [i |-> 0, taskid_found |-> NoneV, taskid_error |-> NoneV]

\* first call of check_repository
FirstCall(config) ==
    IF config.files # <<>> THEN "check_required_files" ELSE "has_workflows_directory"

Init ==
    /\ lab_config \in LabConfigs
    /\ current_cell_value \in Opt(CellValues)
    /\ deadline \in Opt(DeadlineValues)
    /\ expected_taskid \in Opt(ExpectedValues)
    /\ repo \in [existing : SUBSET SeqRange(lab_config.files),
                 workflows : BOOLEAN, has_commit : BOOLEAN]
    /\ pc = FirstCall(lab_config)
    /\ calls = <<>>
    /\ all_modified = <<>>
    /\ check_runs_data = NoneV
    /\ ci_evaluation = NoCIEvaluation
    /\ scan = NoScan
    /\ fetched = <<>>
    /\ ret = NoReturn
    /\ fn_call = NoCall
    /\ fn_result = NoResult
    /\ EndpointIdle

\* ------------------------------------------------------------------------
\* LabGrader.grade, one action per collaborator call: the call, then the
\* code of grade() up to its next call or its return
\* ------------------------------------------------------------------------
Return(value) == ret' = value /\ pc' = "done"

\* first call of step 2 (check_forbidden_files) or, without forbidden-files,
\* of step 3
AfterRepository(config) ==
    IF config.forbidden_files # <<>> THEN "get_all_modified_files"
    ELSE "ci_get_latest_commit"

\* check_repository: required files
CheckRequiredFiles ==
    /\ pc = "check_required_files"
    /\ calls' = Append(calls, "check_required_files")
    /\ LET missing == check_required_files(repo.existing, lab_config.files)
           repo_error == RepoFilesError(missing)
       IN IF repo_error.some THEN Return(repo_error.v)
          ELSE pc' = "has_workflows_directory" /\ ret' = ret
    /\ UNCHANGED <<args, unit, endpoint, all_modified, check_runs_data, ci_evaluation, scan, fetched>>

\* check_repository: workflows directory
HasWorkflowsDirectory ==
    /\ pc = "has_workflows_directory"
    /\ calls' = Append(calls, "has_workflows_directory")
    /\ LET repo_error == RepoWorkflowsError(repo.workflows)
       IN IF repo_error.some THEN Return(repo_error.v)
          ELSE pc' = "get_latest_commit" /\ ret' = ret
    /\ UNCHANGED <<args, unit, endpoint, all_modified, check_runs_data, ci_evaluation, scan, fetched>>

\* check_repository: latest commit; then grade() enters step 2
GetLatestCommit ==
    /\ pc = "get_latest_commit"
    /\ calls' = Append(calls, "get_latest_commit")
    /\ LET commit == IF repo.has_commit THEN Some("sha") ELSE NoneV
           repo_error == RepoCommitError(commit)
       IN IF repo_error.some THEN Return(repo_error.v)
          ELSE pc' = AfterRepository(lab_config) /\ ret' = ret
    /\ UNCHANGED <<args, unit, endpoint, all_modified, check_runs_data, ci_evaluation, scan, fetched>>

\* check_forbidden_files, and what grade() does with its value
GetAllModifiedFiles ==
    /\ pc = "get_all_modified_files"
    /\ calls' = Append(calls, "get_all_modified_files")
    /\ \E files \in ModifiedLists :
         /\ all_modified' = files
         /\ LET forbidden_error == check_forbidden_files(files, lab_config.forbidden_files)
            IN IF GradeAfterForbidden(forbidden_error) = "return"
               THEN Return(forbidden_error.v)
               ELSE pc' = "ci_get_latest_commit" /\ ret' = ret
    /\ UNCHANGED <<args, unit, endpoint, check_runs_data, ci_evaluation, scan, fetched>>

\* _evaluate_ci_internal: the latest commit is requested again; the request
\* can fail although the repository has commits
CIGetLatestCommit ==
    /\ pc = "ci_get_latest_commit"
    /\ calls' = Append(calls, "get_latest_commit")
    /\ \E answered \in BOOLEAN :
         LET commit == IF repo.has_commit /\ answered THEN Some("sha") ELSE NoneV
         IN IF ~commit.some
            THEN /\ ci_evaluation' = CINoCommit
                 /\ Return(CINoCommit.grade_result)
            ELSE /\ ci_evaluation' = ci_evaluation
                 /\ pc' = "get_check_runs"
                 /\ ret' = ret
    /\ UNCHANGED <<args, unit, endpoint, all_modified, check_runs_data, scan, fetched>>

\* the result of grade() once the TASKID scan has ended
TaskidOutcome(taskid_found, taskid_error, evaluation) ==
    LET verdict == TaskidVerdict(taskid_found, taskid_error, expected_taskid.v)
    IN IF verdict.some THEN verdict.v
       ELSE GradeFinalize(lab_config, current_cell_value, deadline, evaluation)

\* _evaluate_ci_internal from get_check_runs on, then steps 3 to 6 of grade()
\* up to the first get_job_logs
GetCheckRuns ==
    /\ pc = "get_check_runs"
    /\ calls' = Append(calls, "get_check_runs")
    /\ \E data \in CheckRunsReturns :
         LET evaluation == evaluate_ci_internal(data, lab_config)
             next == GradeAfterCI(evaluation, lab_config, expected_taskid)
             first == NextFetch(evaluation.successful_runs, 1)
         IN /\ check_runs_data' = data
            /\ ci_evaluation' = evaluation
            /\ IF next = "return"
               THEN Return(evaluation.grade_result) /\ scan' = scan
               ELSE IF next = "finalize"
               THEN /\ Return(GradeFinalize(lab_config, current_cell_value, deadline,
                                            evaluation))
                    /\ scan' = scan
               ELSE IF first <= Len(evaluation.successful_runs)
               THEN /\ pc' = "get_job_logs"
                    /\ ret' = ret
                    /\ scan' = [i |-> first, taskid_found |-> NoneV, taskid_error |-> NoneV]
               ELSE /\ Return(TaskidOutcome(NoneV, NoneV, evaluation))
                    /\ scan' = [i |-> first, taskid_found |-> NoneV, taskid_error |-> NoneV]
    /\ UNCHANGED <<args, unit, endpoint, all_modified, fetched>>

\* check_taskid: the logs of one successful run, then the loop up to the next
\* get_job_logs, or the rest of grade()
GetJobLogs ==
    /\ pc = "get_job_logs"
    /\ calls' = Append(calls, "get_job_logs")
    /\ \E logs \in JobLogsReturns :
         LET runs == ci_evaluation.successful_runs
             found == ScanLogs(logs)
             next == NextFetch(runs, scan.i + 1)
         IN /\ fetched' = Append(fetched, [run |-> scan.i, job_id |-> JobId(runs[scan.i]),
                                           logs |-> logs])
            /\ IF found.break
               THEN /\ scan' = [i |-> scan.i, taskid_found |-> found.taskid_found,
                                taskid_error |-> found.taskid_error]
                    /\ Return(TaskidOutcome(found.taskid_found, found.taskid_error,
                                            ci_evaluation))
               ELSE IF next <= Len(runs)
               THEN /\ scan' = [scan EXCEPT !.i = next]
                    /\ pc' = "get_job_logs"
                    /\ ret' = ret
               ELSE /\ scan' = [scan EXCEPT !.i = next]
                    /\ Return(TaskidOutcome(NoneV, NoneV, ci_evaluation))
    /\ UNCHANGED <<args, unit, endpoint, all_modified, check_runs_data, ci_evaluation>>

Next ==
    \/ CheckRequiredFiles
    \/ HasWorkflowsDirectory
    \/ GetLatestCommit
    \/ GetAllModifiedFiles
    \/ CIGetLatestCommit
    \/ GetCheckRuns
    \/ GetJobLogs

Spec == Init /\ [][Next]_vars

TypeOK ==
    /\ pc \in {"check_required_files", "has_workflows_directory", "get_latest_commit",
               "get_all_modified_files", "ci_get_latest_commit", "get_check_runs",
               "get_job_logs", "done"}
    /\ ret.kind \in {"none", "GradeResult", "ForbiddenFilesWarning", "exception"}
    /\ (pc = "done") <=> (ret.kind # "none")

\* ------------------------------------------------------------------------
\* Properties of LabGrader.grade
\* ------------------------------------------------------------------------
Returned == pc = "done"

ReturnedGradeResult == pc = "done" /\ ret.kind = "GradeResult"

Called(fn) == InSeq(fn, calls)

ProtectedCell == current_cell_value.some /\ ~can_overwrite_cell(current_cell_value.v)

\* C1: a call of grade() with a protected current cell value never returns
\* status=updated; when it returns a verdict (updated or rejected) the
\* status is rejected and result and current_grade both echo the cell value.
C1_ProtectedCellNeverUpdated ==
    (ReturnedGradeResult /\ ProtectedCell) =>
        /\ ret.status # "updated"
        /\ (ci_evaluation.grade_result.kind = "GradeResult"
            /\ ci_evaluation.grade_result.status = "updated"
            /\ ret.status # "error")
           => /\ ret.status = "rejected"
              /\ ret.result = current_cell_value
              /\ ret.current_grade = current_cell_value

\* the forbidden-files step found a violation
ForbiddenViolation ==
    /\ Called("get_all_modified_files")
    /\ \E i \in 1..Len(all_modified), j \in 1..Len(lab_config.forbidden_files) :
           IsPrefix(lab_config.forbidden_files[j], all_modified[i])

\* C2: when a forbidden modification is detected grade() does not stop at
\* that step: CI evaluation is still performed and the value returned is the
\* GradeResult of the later steps.
C2_ForbiddenViolationIsNotTerminal ==
    (Returned /\ ForbiddenViolation) =>
        /\ Len(calls) > 0 /\ calls[Len(calls)] # "get_all_modified_files"
        /\ ret.kind = "GradeResult"

\* C3: grade() always returns a GradeResult whose status is one of updated,
\* rejected, pending, error; it never raises and never returns a value of
\* another type.
C3_AlwaysReturnsGradeResult ==
    Returned => (ret.kind = "GradeResult" /\ ret.status \in GradeStatus)

RepositoryErrorCodes == {"MISSING_FILES", "NO_WORKFLOWS", "NO_COMMITS"}

RepositoryError ==
    /\ ReturnedGradeResult
    /\ ret.error_code.some
    /\ ret.error_code.v \in RepositoryErrorCodes

\* _evaluate_ci_internal ran and ended in pending, error or a failed verdict
CINotPassed ==
    /\ ci_evaluation.grade_result.kind = "GradeResult"
    /\ \/ ci_evaluation.grade_result.status # "updated"
       \/ ~ci_evaluation.ci_passed

\* C4: once a step has produced a terminal result no later collaborator call
\* is issued: get_check_runs is never requested after a repository-check
\* error, and get_job_logs is never requested when CI evaluation ended in
\* pending, error or a failed verdict.
C4_NoCallAfterTerminalResult ==
    /\ RepositoryError => (~Called("get_check_runs") /\ ~Called("get_job_logs")
                           /\ ~Called("get_all_modified_files"))
    /\ CINotPassed => (~Called("get_job_logs") /\ Returned
                       /\ calls[Len(calls)] \in {"get_latest_commit", "get_check_runs"})

\* a failed CI verdict on a call that asked for TASKID validation
C4_Witness ==
    /\ Returned
    /\ ci_evaluation.grade_result.kind = "GradeResult"
    /\ ci_evaluation.grade_result.status = "updated"
    /\ ~ci_evaluation.ci_passed
    /\ ci_evaluation.successful_runs # <<>>
    /\ expected_taskid.some /\ ~lab_config.ignore_task_id
    /\ ~Called("get_job_logs")

\* get_check_runs answered with a list
CIFetched == Called("get_check_runs") /\ check_runs_data.some

\* the relevant runs of the latest commit
RelevantRuns ==
    filter_relevant_jobs(parse_check_runs(check_runs_data.v), get_ci_config_jobs(lab_config))

SuccessCount(runs) ==
    Cardinality({ i \in 1..Len(runs) : runs[i].conclusion = Some("success") })

AllConcluded(runs) ==
    \A i \in 1..Len(runs) : runs[i].conclusion \in {Some("success"), Some("failure")}

SomePending(runs) == \E i \in 1..Len(runs) : ~runs[i].conclusion.some

\* "<c>/<n> ..." for one-digit counts
CountString(c, n) == <<DigitChar(c), "/", DigitChar(n), " testov projdeno">>

\* C5: with at least one relevant run, all of them concluded success or
\* failure, and no deadline, cell value or expected variant supplied, grade()
\* returns status=updated with "v" if every relevant run succeeded and "x"
\* otherwise, passed being "<successes>/<relevant runs> ..." and no error code.
C5_ConcludedRunsGiveVerdict ==
    (/\ Returned /\ CIFetched
     /\ ~deadline.some /\ ~current_cell_value.some /\ ~expected_taskid.some
     /\ RelevantRuns # <<>> /\ AllConcluded(RelevantRuns))
    => /\ ret.kind = "GradeResult"
       /\ ret.status = "updated"
       /\ ret.result = Some(IF SuccessCount(RelevantRuns) = Len(RelevantRuns)
                            THEN TokV ELSE TokX)
       /\ ret.passed = Some(CountString(SuccessCount(RelevantRuns), Len(RelevantRuns)))
       /\ ret.error_code = NoneV

\* one of two relevant runs failed: "x" with "1/2 ..."
C5_Witness ==
    /\ Returned /\ CIFetched
    /\ ~deadline.some /\ ~current_cell_value.some /\ ~expected_taskid.some
    /\ Len(RelevantRuns) = 2 /\ AllConcluded(RelevantRuns)
    /\ SuccessCount(RelevantRuns) = 1
    /\ ret.kind = "GradeResult" /\ ret.result = Some(TokX)

\* C6: grade() returns status=pending without a result whenever get_check_runs
\* gives an empty list, or no run remains after filtering, or a relevant run
\* has no conclusion yet; in the last case the result carries the partial
\* count string and one summary line per relevant run.  A pending result
\* never carries a grade token.
C6_PendingWithoutToken ==
    /\ (Returned /\ CIFetched /\
        (check_runs_data.v = <<>> \/ RelevantRuns = <<>> \/ SomePending(RelevantRuns)))
       => (ret.kind = "GradeResult" /\ ret.status = "pending" /\ ret.result = NoneV)
    /\ (Returned /\ CIFetched /\ check_runs_data.v # <<>> /\ SomePending(RelevantRuns))
       => /\ ret.passed = Some(CountString(SuccessCount(RelevantRuns), Len(RelevantRuns)))
          /\ Len(ret.checks) = Len(RelevantRuns)
          /\ \A i \in 1..Len(RelevantRuns) : ret.checks[i].name = RelevantRuns[i].name
    /\ (ReturnedGradeResult /\ ret.status = "pending") => ret.result = NoneV

\* one relevant run succeeded, the other is still running: pending, "1/2 ..."
C6_Witness ==
    /\ Returned /\ CIFetched
    /\ Len(RelevantRuns) = 2 /\ SomePending(RelevantRuns)
    /\ SuccessCount(RelevantRuns) = 1
    /\ ret.status = "pending" /\ Len(ret.checks) = 2

ErrorTaxonomy ==
    {"MISSING_FILES", "NO_WORKFLOWS", "NO_COMMITS", "CI_FETCH_ERROR",
     "MULTIPLE_TASKIDS", "TASKID_NOT_FOUND", "WRONG_TASKID"}

\* C7: every status=error result of grade() carries an error code of the
\* taxonomy; a failed get_check_runs gives CI_FETCH_ERROR.
C7_ErrorsCarryCode ==
    (ReturnedGradeResult /\ ret.status = "error") =>
        /\ ret.error_code.some
        /\ ret.error_code.v \in ErrorTaxonomy
        /\ (Called("get_check_runs") /\ ~check_runs_data.some)
               => ret.error_code.v = "CI_FETCH_ERROR"

\* positions of the required files the repository lacks
MissingIdx ==
    { i \in 1..Len(lab_config.files) : lab_config.files[i] \notin repo.existing }

FirstMissing ==
    lab_config.files[CHOOSE i \in MissingIdx : \A j \in MissingIdx : i <= j]

RepositoryChecked ==
    pc \notin {"check_required_files", "has_workflows_directory", "get_latest_commit"}

ReturnedError(code) ==
    /\ ReturnedGradeResult
    /\ ret.status = "error"
    /\ ret.result = NoneV
    /\ ret.error_code = Some(code)

\* C8: check_repository reports the first failing condition in the order
\* required files, workflows directory, latest commit: MISSING_FILES naming
\* the first missing file of the required list whatever the other two checks
\* would say; else NO_WORKFLOWS whatever the commit state; else NO_COMMITS;
\* else no repository error.
C8_FirstRepositoryFailure ==
    RepositoryChecked =>
        IF MissingIdx # {}
        THEN /\ ReturnedError("MISSING_FILES")
             /\ ret.message = [id |-> "file_not_found", file |-> FirstMissing]
        ELSE IF ~repo.workflows THEN ReturnedError("NO_WORKFLOWS")
        ELSE IF ~repo.has_commit THEN ReturnedError("NO_COMMITS")
        ELSE ~RepositoryError

\* two files missing, no workflows, no commit: the first file is named
C8_Witness ==
    /\ Returned
    /\ Cardinality(MissingIdx) = 2
    /\ ~repo.workflows /\ ~repo.has_commit
    /\ ret.message = [id |-> "file_not_found", file |-> lab_config.files[1]]

\* the numbers that follow a TASKID marker in a log text
LogValues(logs) ==
    { logs[i].val : i \in { k \in 1..Len(logs) : logs[k].marker # "none" } }

\* what a fetched log gives the scan: one value, several values, or nothing
LogOutcome(logs) ==
    IF ~logs.some THEN "none"
    ELSE IF Cardinality(LogValues(logs.v)) = 1 THEN "value"
    ELSE IF Cardinality(LogValues(logs.v)) > 1 THEN "multiple"
    ELSE "none"

TheValue(logs) == CHOOSE n \in LogValues(logs.v) : TRUE

\* C9: when the logs of a successful run carry the marker "TASKID is N":
\* N different from the expected value gives status=error, WRONG_TASKID and
\* the wrong-variant token; N equal to it lets grade() go on to a
\* status=updated or status=rejected result.
C9_MarkerDecidesVariant ==
    Returned =>
        \A k \in 1..Len(fetched) :
            LogOutcome(fetched[k].logs) = "value" =>
                IF TheValue(fetched[k].logs) # expected_taskid.v
                THEN /\ ret.kind = "GradeResult"
                     /\ ret.status = "error"
                     /\ ret.error_code = Some("WRONG_TASKID")
                     /\ ret.result = Some(WrongTaskidToken)
                ELSE /\ ret.kind = "GradeResult"
                     /\ ret.status \in {"updated", "rejected"}

\* positions of the successful runs whose logs can be requested
FetchableIdx ==
    { i \in 1..Len(ci_evaluation.successful_runs) :
          /\ ci_evaluation.successful_runs[i].html_url.sep = "/job/"
          /\ ci_evaluation.successful_runs[i].html_url.tail.numeric }

\* grade() entered check_taskid
TaskidStepEntered ==
    /\ ci_evaluation.grade_result.kind = "GradeResult"
    /\ ci_evaluation.ci_passed
    /\ expected_taskid.some /\ ~lab_config.ignore_task_id

C11_TaskidErrorsCarrySentinel ==
    (Returned /\ TaskidStepEntered /\ ret.kind = "GradeResult" /\ ret.status = "error")
    => ret.result = Some(WrongTaskidToken)

\* _evaluate_ci_internal got as far as get_check_runs
CIEvaluated == Called("get_check_runs")

\* C12: the TASKID step runs only when CI passed, an expected variant was
\* supplied and ignore-task-id is not set; otherwise get_job_logs is never
\* called and grade() returns what steps 3, 5 and 6 alone determine.
C12_TaskidStepFrame ==
    /\ Called("get_job_logs") => TaskidStepEntered
    /\ (CIEvaluated /\ ~TaskidStepEntered) => fetched = <<>>
    /\ (Returned /\ CIEvaluated /\ ~TaskidStepEntered) =>
           ret = IF \/ ci_evaluation.grade_result.status # "updated"
                    \/ ~ci_evaluation.ci_passed
                 THEN ci_evaluation.grade_result
                 ELSE GradeFinalize(lab_config, current_cell_value, deadline,
                                    ci_evaluation)

\* CI passed with a run whose logs could be fetched and an expected variant
\* was supplied, but ignore-task-id is set: no log is requested
C12_Witness ==
    /\ Returned /\ CIEvaluated
    /\ ci_evaluation.ci_passed
    /\ FetchableIdx # {}
    /\ expected_taskid.some /\ lab_config.ignore_task_id
    /\ ~Called("get_job_logs")
    /\ ret.kind = "GradeResult" /\ ret.status = "updated"

\* the strategy grade() passes to calculate_penalty: an unknown name is weekly
StrategyOf(config) ==
    IF config.penalty_strategy \in {"weekly", "immediate", "none", "daily"}
    THEN config.penalty_strategy ELSE "weekly"

\* grade() went past the TASKID step with CI passed
PenaltyStepReached ==
    /\ Returned /\ CIEvaluated
    /\ ci_evaluation.ci_passed
    /\ ~(ret.kind = "GradeResult" /\ ret.status = "error")

\* "v" for no penalty, "v-N" for a penalty of N > 0
ExpectedToken(penalty) == IF penalty > 0 THEN <<"v", "-">> \o NatStr(penalty) ELSE <<"v">>

\* C13: when CI passed and the TASKID step did not fail, grade() computes the
\* token format_grade_with_penalty("v", calculate_penalty(latest success,
\* deadline, penalty-max, strategy)), an unknown strategy name counting as
\* weekly: "v" for a penalty of 0, "v-N" for N > 0; without a deadline or
\* without a completion time of a successful run the token is "v".  The
\* token is the result unless the cell is protected.
C13_PenaltyToken ==
    PenaltyStepReached =>
        LET t == ci_evaluation.latest_success_time
            penalty == IF deadline.some /\ t.some
                       THEN calculate_penalty_value(t.v, deadline.v,
                                                    lab_config.penalty_max,
                                                    StrategyOf(lab_config))
                       ELSE 0
        IN /\ ret.kind = "GradeResult"
           /\ ret.status \in {"updated", "rejected"}
           /\ ret.status = "updated" => ret.result = Some(ExpectedToken(penalty))

\* ------------------------------------------------------------------------
\* Direct calls of the pure functions.  grade() is not running: its
\* variables keep the values below.
\* ------------------------------------------------------------------------
IdleConfig ==
    [files |-> <<>>, forbidden_files |-> <<>>, ci |-> [kind |-> "absent"],
     ignore_task_id |-> FALSE, penalty_max |-> 0, penalty_strategy |-> "weekly"]

grade_vars == <<args, pc, calls, all_modified, check_runs_data, ci_evaluation, scan,
                fetched, ret>>

GradeIdle ==
    /\ lab_config = IdleConfig
    /\ current_cell_value = NoneV
    /\ deadline = NoneV
    /\ expected_taskid = NoneV
    /\ repo = [existing |-> {}, workflows |-> FALSE, has_commit |-> FALSE]
    /\ pc = "idle"
    /\ calls = <<>>
    /\ all_modified = <<>>
    /\ check_runs_data = NoneV
    /\ ci_evaluation = NoCIEvaluation
    /\ scan = NoScan
    /\ fetched = <<>>
    /\ ret = NoReturn

\* the call returns `value`
Returns(value) ==
    /\ ~fn_result.done
    /\ fn_result' = [done |-> TRUE, value |-> value]
    /\ UNCHANGED <<fn_call, grade_vars, endpoint>>

\* ------------------------------------------------------------------------
\* calculate_penalty called directly
\* ------------------------------------------------------------------------
\* the deadline: day 10, 100 s and 5 microseconds into the day
PenaltyDeadline == DateTime(10, 100, 5, TRUE)

\* completion times from the day before the deadline to MaxLateDays days
\* after it, at, just before and just after the deadline's time of day
CompletionTimes ==
    { DateTime(d, sec, u, aw) :
          d \in (PenaltyDeadline.days - 1)..(PenaltyDeadline.days + MaxLateDays),
          sec \in {0, PenaltyDeadline.seconds, PenaltyDeadline.seconds + 1},
          u \in {PenaltyDeadline.microseconds - 1, PenaltyDeadline.microseconds,
                 PenaltyDeadline.microseconds + 1},
          aw \in BOOLEAN }

Caps == (0 - 1)..MaxCap

PenaltyInit ==
    /\ GradeIdle
    /\ EndpointIdle
    /\ fn_call \in [fn : {"calculate_penalty"}, completed_at : CompletionTimes,
                    deadline : {PenaltyDeadline}, penalty_max : Caps,
                    strategy : PenaltyStrategyValues]
    /\ fn_result = NoResult

CalculatePenalty ==
    /\ fn_call.fn = "calculate_penalty"
    /\ Returns(calculate_penalty(fn_call.completed_at, fn_call.deadline,
                                 fn_call.penalty_max, fn_call.strategy))

PenaltyNext == CalculatePenalty

PenaltySpec == PenaltyInit /\ [][PenaltyNext]_vars

\* ------------------------------------------------------------------------
\* Properties of calculate_penalty
\* ------------------------------------------------------------------------
\* calculate_penalty returned a number
PenaltyReturned == fn_result.done /\ fn_result.value.ok

AddDays(t, n) == [t EXCEPT !.days = t.days + n]

\* ceil(elapsed / `period` days): the least number of periods that, added to
\* the deadline, reach the completion time
CeilPeriods(completed_at, limit, period) ==
    CHOOSE n \in 0..(completed_at.days - limit.days + 1) :
        /\ TimeLE(completed_at, AddDays(limit, n * period))
        /\ \A m \in 0..(n - 1) : ~TimeLE(completed_at, AddDays(limit, m * period))

\* the reference function
ReferencePenalty(completed_at, limit, cap, strategy) ==
    IF TimeLE(completed_at, limit) THEN 0
    ELSE IF strategy = "none" THEN 0
    ELSE IF strategy = "immediate" THEN cap
    ELSE IF strategy = "daily" THEN Min(CeilPeriods(completed_at, limit, 1), cap)
    ELSE Min(CeilPeriods(completed_at, limit, 7), cap)

\* C14: calculate_penalty agrees with the reference function: 0 up to the
\* deadline, then 0 for none, the cap for immediate, min(ceil(elapsed / 1
\* day), cap) for daily and min(ceil(elapsed / 7 days), cap) for weekly, any
\* nonzero duration past a whole day (week) rounding the count up.
C14_PenaltyMatchesReference ==
    PenaltyReturned =>
        fn_result.value.v = ReferencePenalty(fn_call.completed_at, fn_call.deadline,
                                             fn_call.penalty_max, fn_call.strategy)

\* C15: for a fixed deadline, cap and strategy the penalty never decreases
\* as the completion time grows, and it is 0 up to the deadline.
C15_PenaltyMonotone ==
    PenaltyReturned =>
        /\ TimeLE(fn_call.completed_at, fn_call.deadline) => fn_result.value.v = 0
        /\ \A t1 \in CompletionTimes :
               (t1.aware = fn_call.completed_at.aware /\ TimeLE(t1, fn_call.completed_at))
               => calculate_penalty(t1, fn_call.deadline, fn_call.penalty_max,
                                    fn_call.strategy).v <= fn_result.value.v

\* C16 as stated: the penalty never exceeds the cap, whatever the inputs.
C16_PenaltyWithinCap ==
    PenaltyReturned => fn_result.value.v <= fn_call.penalty_max

\* C16 amended: for a cap of 0 or more the penalty never exceeds the cap, for
\* every completion time, deadline and strategy.
C16_PenaltyWithinNonNegativeCap ==
    (PenaltyReturned /\ fn_call.penalty_max >= 0)
    => fn_result.value.v <= fn_call.penalty_max

\* more days late than the cap, daily: the penalty is the cap
C16_Witness ==
    /\ PenaltyReturned
    /\ fn_call.strategy = "daily"
    /\ fn_call.penalty_max = 3
    /\ fn_call.completed_at.days - fn_call.deadline.days > fn_call.penalty_max
    /\ fn_result.value.v = fn_call.penalty_max

\* C17: with a cap of 0 or less calculate_penalty returns 0 for every
\* completion time, deadline and strategy, never a negative number.
C17_NoPenaltyWithoutCap ==
    (PenaltyReturned /\ fn_call.penalty_max <= 0) => fn_result.value.v = 0

\* ------------------------------------------------------------------------
\* can_overwrite_cell called directly
\* ------------------------------------------------------------------------
CellChars == {" ", "\t", "x", "?", "v", "-", "1"}

CellTexts == SeqsUpTo(CellChars, MaxCellLen)

OverwriteInit ==
    /\ GradeIdle
    /\ EndpointIdle
    /\ fn_call \in [fn : {"can_overwrite_cell"}, current_value : CellTexts]
    /\ fn_result = NoResult

CanOverwriteCell ==
    /\ fn_call.fn = "can_overwrite_cell"
    /\ Returns(can_overwrite_cell(fn_call.current_value))

OverwriteNext == CanOverwriteCell

OverwriteSpec == OverwriteInit /\ [][OverwriteNext]_vars

\* ------------------------------------------------------------------------
\* Properties of can_overwrite_cell
\* ------------------------------------------------------------------------
AllWhitespace(s) == \A i \in 1..Len(s) : s[i] \in {" ", "\t", "\n"}

StartsWithQuestionMark(s) == s # <<>> /\ s[1] = "?"

\* the text between the first and the last character that is not whitespace
Trimmed(s) ==
    IF AllWhitespace(s) THEN <<>>
    ELSE LET solid == { i \in 1..Len(s) : s[i] \notin {" ", "\t", "\n"} }
             first == CHOOSE i \in solid : \A j \in solid : i <= j
             last == CHOOSE i \in solid : \A j \in solid : j <= i
         IN SubSeq(s, first, last)

\* C18 as stated: can_overwrite_cell returns true iff the value is empty or
\* whitespace-only, is exactly "x", is exactly "?", or starts with "?"; for
\* every other value, "v" and "v-N" included, it returns false.
C18_OverwritableValues ==
    fn_result.done =>
        (fn_result.value <=>
            LET value == fn_call.current_value IN
            \/ AllWhitespace(value)
            \/ value = <<"x">>
            \/ value = <<"?">>
            \/ StartsWithQuestionMark(value))

\* C18 amended: can_overwrite_cell returns a boolean for every text, true
\* iff the value with its leading and trailing whitespace removed is empty,
\* is exactly "x", is exactly "?", or starts with "?"; for every other
\* value, "v" and "v-N" included, it returns false.
C18_OverwritableAfterStrip ==
    fn_result.done =>
        /\ fn_result.value \in BOOLEAN
        /\ fn_result.value <=>
               LET value == Trimmed(fn_call.current_value) IN
               \/ value = <<>>
               \/ value = <<"x">>
               \/ value = <<"?">>
               \/ StartsWithQuestionMark(value)
        /\ Trimmed(fn_call.current_value) = <<"v">> => ~fn_result.value
        /\ IsPrefix(<<"v", "-">>, Trimmed(fn_call.current_value)) => ~fn_result.value

\* a failed token with a space in front can be overwritten
C18_Witness ==
    /\ fn_result.done
    /\ fn_call.current_value = <<" ", "x">>
    /\ fn_result.value

\* ------------------------------------------------------------------------
\* evaluate_ci_results called directly
\* ------------------------------------------------------------------------
\* check runs as parse_check_runs builds them from GitHub records
CheckRunValues ==
    { CheckRun(name, conclusion, Url("/job/", TRUE, 1), completed_at) :
          name \in {"test", "lint"},
          conclusion \in {Some("success"), Some("failure"), Some("cancelled"), NoneV},
          completed_at \in {NoneV, Some(DateTime(9, 36000, 0, TRUE))} }

EvaluateInit ==
    /\ GradeIdle
    /\ EndpointIdle
    /\ fn_call \in [fn : {"evaluate_ci_results"},
                    check_runs : SeqsUpTo(CheckRunValues, MaxRuns)]
    /\ fn_result = NoResult

EvaluateCIResults ==
    /\ fn_call.fn = "evaluate_ci_results"
    /\ Returns(evaluate_ci_results(fn_call.check_runs))

EvaluateNext == EvaluateCIResults

EvaluateSpec == EvaluateInit /\ [][EvaluateNext]_vars

\* ------------------------------------------------------------------------
\* Properties of evaluate_ci_results
\* ------------------------------------------------------------------------
\* C19: for every list of check runs evaluate_ci_results gives total_count =
\* the length of the list, passed_count = the number of runs concluded
\* success, and passed = TRUE iff passed_count = total_count and has_pending
\* is FALSE; the empty list gives passed = FALSE, has_pending = TRUE,
\* total_count = 0.
C19_PassedIffAllSucceeded ==
    fn_result.done =>
        LET runs == fn_call.check_runs
            r == fn_result.value
        IN /\ r.total_count = Len(runs)
           /\ r.passed_count = SuccessCount(runs)
           /\ r.passed <=> (r.passed_count = r.total_count /\ ~r.has_pending)
           /\ runs = <<>> => (~r.passed /\ r.has_pending /\ r.total_count = 0)

\* the empty list has been evaluated: pending, not passed
C19_Witness ==
    /\ fn_result.done
    /\ fn_call.check_runs = <<>>
    /\ ~fn_result.value.passed /\ fn_result.value.has_pending

\* C20: for a non-empty list has_pending is TRUE iff some run has no
\* conclusion; a run concluded otherwise than success is not passed but not
\* pending either.
C20_PendingIffNoConclusion ==
    (fn_result.done /\ fn_call.check_runs # <<>>) =>
        (fn_result.value.has_pending <=> SomePending(fn_call.check_runs))

\* ------------------------------------------------------------------------
\* filter_relevant_jobs called directly, then called again on its result
\* ------------------------------------------------------------------------
FilterRunValues ==
    { CheckRun(name, conclusion, Url("/job/", TRUE, 1), NoneV) :
          name \in {"test", "lint", "deploy"},
          conclusion \in {Some("success"), Some("failure")} }

\* the criteria: no configuration, the empty list, or a list of names
FilterCriteria == {NoneV, Some(<<>>), Some(<<"test">>), Some(<<"lint", "test">>)}

FilterInit ==
    /\ GradeIdle
    /\ EndpointIdle
    /\ fn_call \in [fn : {"filter_relevant_jobs"},
                    check_runs : SeqsUpTo(FilterRunValues, MaxRuns),
                    configured_jobs : FilterCriteria]
    /\ fn_result = NoResult

FilterRelevantJobs ==
    /\ fn_call.fn = "filter_relevant_jobs"
    /\ Returns(filter_relevant_jobs(fn_call.check_runs, fn_call.configured_jobs))

\* the list returned is filtered again by the same criteria
FilterAgain ==
    /\ fn_call.fn = "filter_relevant_jobs"
    /\ fn_result.done
    /\ "again" \notin DOMAIN fn_result
    /\ fn_result' = [done |-> TRUE, value |-> fn_result.value,
                     again |-> filter_relevant_jobs(fn_result.value,
                                                    fn_call.configured_jobs)]
    /\ UNCHANGED <<fn_call, grade_vars, endpoint>>

FilterNext == FilterRelevantJobs \/ FilterAgain

FilterSpec == FilterInit /\ [][FilterNext]_vars

\* ------------------------------------------------------------------------
\* Properties of filter_relevant_jobs
\* ------------------------------------------------------------------------
\* the runs of the list whose name is in the set, in the order of the list
RECURSIVE NamedIn(_, _)
NamedIn(runs, names) ==
    IF runs = <<>> THEN <<>>
    ELSE IF Head(runs).name \in names THEN <<Head(runs)>> \o NamedIn(Tail(runs), names)
    ELSE NamedIn(Tail(runs), names)

DefaultNames == {"run-autograding-tests", "test", "build", "Autograding", "autograding"}

\* C21: filter_relevant_jobs returns, in input order: with a configured name
\* list (the empty list included) exactly the runs whose name is in the list;
\* without configuration exactly the runs whose name is a default job name
\* if there is one, and otherwise all runs.
C21_FilterSelectsByName ==
    fn_result.done =>
        LET runs == fn_call.check_runs
            c == fn_call.configured_jobs
        IN fn_result.value =
               IF c.some THEN NamedIn(runs, { c.v[i] : i \in 1..Len(c.v) })
               ELSE IF \E i \in 1..Len(runs) : runs[i].name \in DefaultNames
               THEN NamedIn(runs, DefaultNames)
               ELSE runs

\* no configuration and no run with a default name: both runs come back
C21_Witness ==
    /\ fn_result.done
    /\ ~fn_call.configured_jobs.some
    /\ Len(fn_call.check_runs) = 2
    /\ \A i \in 1..2 : fn_call.check_runs[i].name \notin DefaultNames
    /\ fn_result.value = fn_call.check_runs

\* C22: filtering an already filtered list by the same criteria returns the
\* same list.
C22_FilterIdempotent ==
    (fn_result.done /\ "again" \in DOMAIN fn_result) => fn_result.again = fn_result.value

\* a list that lost a run to the first filtering is filtered again
C22_Witness ==
    /\ fn_result.done /\ "again" \in DOMAIN fn_result
    /\ fn_call.configured_jobs = Some(<<"test">>)
    /\ Len(fn_call.check_runs) = 2
    /\ Len(fn_result.value) = 1
    /\ fn_result.again = fn_result.value

\* ------------------------------------------------------------------------
\* extract_taskid_from_logs called directly
\* ------------------------------------------------------------------------
\* log lines: with or without the timestamp prefix, with or without other
\* text in front of the marker, without marker or with it in either spelling
ExtractLines ==
    { LogLine(ts, lead, "none", 0) : ts \in BOOLEAN, lead \in BOOLEAN }
    \cup { LogLine(ts, lead, marker, val) :
               ts \in BOOLEAN, lead \in BOOLEAN, marker \in MarkerSpellings,
               val \in {5, 10} }

ExtractInit ==
    /\ GradeIdle
    /\ EndpointIdle
    /\ fn_call \in [fn : {"extract_taskid_from_logs"},
                    logs : SeqsUpTo(ExtractLines, MaxLogLines)]
    /\ fn_result = NoResult

ExtractTaskidFromLogs ==
    /\ fn_call.fn = "extract_taskid_from_logs"
    /\ Returns(extract_taskid_from_logs(fn_call.logs))

ExtractNext == ExtractTaskidFromLogs

ExtractSpec == ExtractInit /\ [][ExtractNext]_vars

\* ------------------------------------------------------------------------
\* Properties of extract_taskid_from_logs
\* ------------------------------------------------------------------------
\* the values of the qualifying markers: those that directly follow the
\* timestamp prefix at the start of a line
QualifyingValues(logs) ==
    { logs[i].val : i \in { k \in 1..Len(logs) :
                              /\ logs[k].marker # "none"
                              /\ logs[k].ts /\ ~logs[k].lead } }

\* C23: a marker is matched only where it directly follows the timestamp
\* prefix at the start of a line; a marker in the middle of a line or on a
\* line without timestamp gives neither a found value nor a conflict.
C23_OnlyAnchoredMarkersCount ==
    (fn_result.done /\ fn_call.logs # <<>>) =>
        LET q == QualifyingValues(fn_call.logs)
            r == fn_result.value
        IN /\ r.found.some => r.found.v \in q
           /\ (r.error.some /\ r.error.v.id = "multiple") => Cardinality(q) >= 2
           /\ q = {} => (~r.found.some /\ r.error = Some([id |-> "not_found"]))

\* C24: four outcomes: the empty text has its own error; a text without
\* qualifying marker gives the not-found error; qualifying markers that all
\* carry one value give found = that value and no error; qualifying markers
\* with two different values give the multiple-variants error, found absent.
C24_FourOutcomes ==
    fn_result.done =>
        LET q == QualifyingValues(fn_call.logs)
            r == fn_result.value
        IN IF fn_call.logs = <<>>
           THEN ~r.found.some /\ r.error.some /\ r.error.v.id = "empty"
           ELSE IF Cardinality(q) = 0
           THEN ~r.found.some /\ r.error.some /\ r.error.v.id = "not_found"
           ELSE IF Cardinality(q) = 1
           THEN r.found.some /\ {r.found.v} = q /\ ~r.error.some
           ELSE ~r.found.some /\ r.error.some /\ r.error.v.id = "multiple"

\* ------------------------------------------------------------------------
\* calculate_expected_taskid called directly
\* ------------------------------------------------------------------------
ExpectedInit ==
    /\ GradeIdle
    /\ EndpointIdle
    /\ fn_call \in [fn : {"calculate_expected_taskid"},
                    student_order : (0 - 1)..(MaxTaskid + 2),
                    taskid_shift : (0 - 2 * MaxTaskid - 1)..(2 * MaxTaskid + 1),
                    taskid_max : (0 - 1)..MaxTaskid]
    /\ fn_result = NoResult

CalculateExpectedTaskid ==
    /\ fn_call.fn = "calculate_expected_taskid"
    /\ Returns(calculate_expected_taskid(fn_call.student_order, fn_call.taskid_shift,
                                         fn_call.taskid_max))

ExpectedNext == CalculateExpectedTaskid

ExpectedSpec == ExpectedInit /\ [][ExpectedNext]_vars

\* ------------------------------------------------------------------------
\* Properties of calculate_expected_taskid
\* ------------------------------------------------------------------------
\* C25: for every student_order and shift (negative shifts and shifts larger
\* than max included) and every max > 0, calculate_expected_taskid returns
\* the value of 1..max that differs from student_order + shift by a multiple
\* of max: (student_order + shift) mod max with 0 mapped to max.
C25_ExpectedTaskidInRange ==
    (fn_result.done /\ fn_call.taskid_max > 0) =>
        LET sum == fn_call.student_order + fn_call.taskid_shift
            max == fn_call.taskid_max
            r == fn_result.value
        IN /\ r.ok
           /\ r.v \in 1..max
           /\ \E k \in (0 - 4 * MaxTaskid - 4)..(4 * MaxTaskid + 4) : sum - r.v = k * max

\* a negative sum that is a multiple of max gives max
C25_Witness ==
    /\ fn_result.done
    /\ fn_call.taskid_max = 3
    /\ fn_call.student_order + fn_call.taskid_shift = 0 - 3
    /\ fn_result.value.v = 3

\* ------------------------------------------------------------------------
\* Properties of the forbidden-file step of grade()
\* ------------------------------------------------------------------------
\* test_main.py itself or a path under tests/
SentinelPath(path) ==
    path # <<>> /\ Head(path) \in {"test_main.py", "tests/"}

\* C26: when test_main.py is among the required files and no forbidden-files
\* list is configured, grade() treats test_main.py and the paths under
\* tests/ as forbidden: once the repository checks have passed it asks for
\* the modified files, and a modification of such a path is reported as a
\* forbidden-file violation.
C26_DefaultForbiddenPatterns ==
    (/\ Returned /\ ~RepositoryError
     /\ \E i \in 1..Len(lab_config.files) : lab_config.files[i] = <<"test_main.py">>
     /\ lab_config.forbidden_files = <<>>)
    => /\ Called("get_all_modified_files")
       /\ (\E i \in 1..Len(all_modified) : SentinelPath(all_modified[i]))
          => /\ ret.kind = "ForbiddenFilesWarning"
             /\ \A i \in 1..Len(all_modified) :
                    SentinelPath(all_modified[i])
                    => \E k \in 1..Len(ret.violations) : ret.violations[k] = all_modified[i]

\* ------------------------------------------------------------------------
\* The two forbidden-path checks as calls of their own
\* ------------------------------------------------------------------------
ChangedPaths ==
    { <<"main.cpp">>, <<"test_main.py">>, <<"tests/", "helper.py">>,
      <<"test_main.py", ".bak">> }

\* the last list has two patterns that both match test_main.py.bak
PatternLists ==
    { <<>>,
      << <<"test_main.py">> >>,
      << <<"test_main.py">>, <<"tests/">> >>,
      << <<"test_main.py">>, <<"test_main.py", ".bak">> >> }

CommitFiles == [filename : ChangedPaths, status : {"modified", "removed", "added"}]

ForbiddenInit ==
    /\ GradeIdle
    /\ EndpointIdle
    /\ fn_call \in
         [fn : {"check_forbidden_files_in_list"},
          all_files : SeqsUpTo(ChangedPaths, MaxModified),
          forbidden_patterns : PatternLists]
         \cup
         [fn : {"check_forbidden_modifications"},
          commit_files : SeqsUpTo(CommitFiles, MaxModified),
          forbidden_patterns : PatternLists]
    /\ fn_result = NoResult

CheckForbiddenFilesInList ==
    /\ fn_call.fn = "check_forbidden_files_in_list"
    /\ Returns(check_forbidden_files_in_list(fn_call.all_files, fn_call.forbidden_patterns))

CheckForbiddenModifications ==
    /\ fn_call.fn = "check_forbidden_modifications"
    /\ Returns(check_forbidden_modifications(fn_call.commit_files,
                                             fn_call.forbidden_patterns))

ForbiddenNext == CheckForbiddenFilesInList \/ CheckForbiddenModifications

ForbiddenSpec == ForbiddenInit /\ [][ForbiddenNext]_vars

\* ------------------------------------------------------------------------
\* Properties of the forbidden-path checks
\* ------------------------------------------------------------------------
StartsWith(path, pattern) ==
    /\ Len(pattern) <= Len(path)
    /\ \A i \in 1..Len(pattern) : path[i] = pattern[i]

ForbiddenPath(path, patterns) ==
    \E j \in 1..Len(patterns) : path = patterns[j] \/ StartsWith(path, patterns[j])

\* the forbidden paths of a list, in input order, one per input entry
RECURSIVE ViolatingPaths(_, _)
ViolatingPaths(paths, patterns) ==
    IF paths = <<>> THEN <<>>
    ELSE IF ForbiddenPath(Head(paths), patterns)
         THEN <<Head(paths)>> \o ViolatingPaths(Tail(paths), patterns)
         ELSE ViolatingPaths(Tail(paths), patterns)

\* the same for path+status entries, counting modified and removed ones only
RECURSIVE ViolatingModifications(_, _)
ViolatingModifications(entries, patterns) ==
    IF entries = <<>> THEN <<>>
    ELSE IF /\ Head(entries).status \in {"modified", "removed"}
            /\ ForbiddenPath(Head(entries).filename, patterns)
         THEN <<Head(entries).filename>> \o ViolatingModifications(Tail(entries), patterns)
         ELSE ViolatingModifications(Tail(entries), patterns)

\* C27: check_forbidden_files_in_list reports a path iff it equals or starts
\* with some pattern; check_forbidden_modifications reports it iff in
\* addition its status is modified or removed (an added file never is).
\* Both return the violating paths in input order, each input entry at most
\* once even when several patterns match it.
C27_ForbiddenDetectionRule ==
    fn_result.done =>
        /\ fn_call.fn = "check_forbidden_files_in_list"
           => fn_result.value = ViolatingPaths(fn_call.all_files, fn_call.forbidden_patterns)
        /\ fn_call.fn = "check_forbidden_modifications"
           => fn_result.value = ViolatingModifications(fn_call.commit_files,
                                                       fn_call.forbidden_patterns)

\* a modified path matched by two patterns is reported once, an added
\* forbidden file is not reported
C27_Witness ==
    /\ fn_result.done
    /\ fn_call.fn = "check_forbidden_modifications"
    /\ fn_call.forbidden_patterns = << <<"test_main.py">>, <<"test_main.py", ".bak">> >>
    /\ fn_call.commit_files =
         << [filename |-> <<"test_main.py", ".bak">>, status |-> "modified"],
            [filename |-> <<"test_main.py">>, status |-> "added"] >>
    /\ fn_result.value = << <<"test_main.py", ".bak">> >>

\* the flat list: a path matched by two patterns is reported once
C27_WitnessList ==
    /\ fn_result.done
    /\ fn_call.fn = "check_forbidden_files_in_list"
    /\ fn_call.forbidden_patterns = << <<"test_main.py">>, <<"test_main.py", ".bak">> >>
    /\ fn_call.all_files = << <<"main.cpp">>, <<"test_main.py", ".bak">> >>
    /\ fn_result.value = << <<"test_main.py", ".bak">> >>

\* ------------------------------------------------------------------------
\* Optional fields of the results of grade()
\* ------------------------------------------------------------------------
\* C28: in every GradeResult returned by grade(), error_code is set only if
\* status is error and current_grade is set only if status is rejected; a
\* result with status updated or pending carries neither.
C28_OptionalFieldsFollowStatus ==
    ReturnedGradeResult =>
        /\ ret.error_code.some => ret.status = "error"
        /\ ret.current_grade.some => ret.status = "rejected"
        /\ ret.status \in {"updated", "pending"}
           => ret.error_code = NoneV /\ ret.current_grade = NoneV

\* an updated result written over an overwritable previous cell value
C28_Witness ==
    /\ ReturnedGradeResult
    /\ ret.status = "updated"
    /\ current_cell_value.some
    /\ ret.current_grade = NoneV
    /\ ret.error_code = NoneV

C28_WitnessRejected ==
    /\ ReturnedGradeResult
    /\ ret.status = "rejected"
    /\ ret.current_grade = current_cell_value
    /\ ret.error_code = NoneV

C28_WitnessError ==
    /\ ReturnedGradeResult
    /\ ret.status = "error"
    /\ ret.error_code.some
    /\ ret.current_grade = NoneV

\* ------------------------------------------------------------------------
\* Absent job logs in the TASKID scan
\* ------------------------------------------------------------------------
\* C29: in the TASKID scan an absent return of get_job_logs for a successful
\* run is turned at once into a terminal status=error GradeResult: it is
\* the last log request of the call and grade() has returned an error.
C29_AbsentLogsAreTerminal ==
    \A k \in 1..Len(fetched) :
        fetched[k].logs = NoneV
        => /\ k = Len(fetched)
           /\ ReturnedGradeResult
           /\ ret.status = "error"

\* the logs of the first run were absent, those of a later run were
\* requested and grade() returned a result that is not an error
C29_AbsentLogsThenSuccess ==
    /\ Returned
    /\ Len(fetched) >= 2
    /\ fetched[1].logs = NoneV
    /\ ret.kind = "GradeResult"
    /\ ret.status = "updated"

\* ------------------------------------------------------------------------
\* The grade_lab endpoint: concurrent requests for the same student and
\* lab, one action per stretch of the handler that ends in a call to the
\* spreadsheet or in the response. The handler is a plain `def`, which the
\* framework runs in a thread pool, and it takes no lock.
\* ------------------------------------------------------------------------
Requests == 1..MaxRequests

SheetCellValues == { <<>>, TokX, TokV }

NewRequest ==
    [pc |-> "evaluate_ci", ci_passed |-> FALSE, current_value |-> <<>>,
     final_result |-> <<>>, status |-> "none"]

\* the response: an HTTPException ("http_error") or a body with a status
Respond(req, status) == [req EXCEPT !.pc = "done", !.status = status]

\* the protection check on the value read before, up to the write
CheckCellProtection(req) ==
    IF ~can_overwrite_cell(req.current_value) THEN Respond(req, "rejected")
    ELSE [req EXCEPT !.pc = "update_cell"]

EndpointInit ==
    /\ GradeIdle
    /\ fn_call = NoCall
    /\ fn_result = NoResult
    /\ sheet_cell \in SheetCellValues
    /\ requests = [r \in Requests |-> NewRequest]

\* steps 1 to 3: repository checks, forbidden files, CI evaluation
EndpointEvaluateCI(r) ==
    /\ requests[r].pc = "evaluate_ci"
    /\ \E outcome \in {"http_error", "pending", "failed", "passed"} :
         requests' = [requests EXCEPT ![r] =
             IF outcome \in {"http_error", "pending"} THEN Respond(@, outcome)
             ELSE [@ EXCEPT !.pc = "read_cell",
                            !.ci_passed = (outcome = "passed"),
                            !.final_result = IF outcome = "passed" THEN TokV ELSE TokX]]
    /\ UNCHANGED <<sheet_cell, grade_vars, unit>>

\* the worksheet, the student's row and the lab column are looked up and
\* the cell is read; without a CI success the protection check follows
EndpointReadCell(r) ==
    /\ requests[r].pc = "read_cell"
    /\ \/ requests' = [requests EXCEPT ![r] = Respond(@, "http_error")]
       \/ requests' = [requests EXCEPT ![r] =
              LET req == [@ EXCEPT !.current_value = sheet_cell]
              IN IF req.ci_passed THEN [req EXCEPT !.pc = "additional_checks"]
                 ELSE CheckCellProtection(req)]
    /\ UNCHANGED <<sheet_cell, grade_vars, unit>>

\* after a CI success: the student's order and the job logs are fetched for
\* the TASKID check, the deadline is read and the penalty is applied; then
\* the protection check
EndpointAdditionalChecks(r) ==
    /\ requests[r].pc = "additional_checks"
    /\ \/ requests' = [requests EXCEPT ![r] = Respond(@, "http_error")]
       \/ \E penalty \in 0..MaxCap :
            requests' = [requests EXCEPT ![r] =
                CheckCellProtection(
                    [@ EXCEPT !.final_result = format_grade_with_penalty(TokV, penalty)])]
    /\ UNCHANGED <<sheet_cell, grade_vars, unit>>

\* sheet.update_cell and the response
EndpointUpdateCell(r) ==
    /\ requests[r].pc = "update_cell"
    /\ \/ /\ sheet_cell' = requests[r].final_result
          /\ requests' = [requests EXCEPT ![r] = Respond(@, "updated")]
       \/ /\ sheet_cell' = sheet_cell
          /\ requests' = [requests EXCEPT ![r] = Respond(@, "http_error")]
    /\ UNCHANGED <<grade_vars, unit>>

EndpointNext ==
    \E r \in Requests :
        \/ EndpointEvaluateCI(r)
        \/ EndpointReadCell(r)
        \/ EndpointAdditionalChecks(r)
        \/ EndpointUpdateCell(r)

EndpointSpec == EndpointInit /\ [][EndpointNext]_vars

\* ------------------------------------------------------------------------
\* Properties of the grade_lab endpoint
\* ------------------------------------------------------------------------
\* request r performs its update_cell in this step
Writes(r) ==
    /\ requests[r].pc = "update_cell"
    /\ requests'[r].status = "updated"

\* request r ends in this step without status updated
EndsWithoutUpdate(r) ==
    /\ requests[r].pc # "done"
    /\ requests'[r].pc = "done"
    /\ requests'[r].status \in {"rejected", "pending", "http_error"}

\* C30: under any interleaving of grade_lab requests for the same student
\* and lab, update_cell is never performed on a cell whose value at the
\* moment of the write is protected: a cell holding a finalized grade such
\* as "v" or "v-N" is not replaced by a later request, and a request that
\* ends in status rejected, pending or error writes nothing.
C30_NoWriteOverProtectedCell ==
    [][\A r \in Requests :
          /\ Writes(r) => can_overwrite_cell(sheet_cell)
          /\ ~can_overwrite_cell(sheet_cell) => sheet_cell' = sheet_cell
          /\ EndsWithoutUpdate(r) => sheet_cell' = sheet_cell]_vars

\* the part of C30 about requests that do not end in status updated
C30_NoWriteWithoutUpdate ==
    [][\A r \in Requests : EndsWithoutUpdate(r) => sheet_cell' = sheet_cell]_vars

\* two requests answered status=updated although the first of them had
\* already put a finalized grade into the cell
C30_BothUpdated ==
    /\ \A r \in Requests : requests[r].pc = "done"
    /\ requests[1].status = "updated"
    /\ requests[2].status = "updated"
    /\ requests[1].final_result = TokV
    /\ requests[2].final_result # TokV

====
